---- MODULE Spec2Model ----
(***************************************************************************)
(* Maximum clique by Bron-Kerbosch (HW7/bron-kerbosch.py, HW7/ilp.py,      *)
(* HW7/ILP.py) and the RSA demonstration (HW7/rsa.py, HW7/RSA.py).         *)
(***************************************************************************)
EXTENDS Integers, Sequences, FiniteSets, TLC

\* ------------------------------------------------------------------ bounds
\* Vertices are 0..N-1 for graphs of at most N vertices.
N == 3
\* Largest number of edge lines of an input file.
MaxLines == 2
\* Runs of BK on one graph in test() (num_runs in the source is 5).
NumRuns == 2
\* Frames the interpreter allows before RecursionError (1000 in CPython);
\* a search on a loop-free graph of N vertices needs at most N + 1.
MaxDepth == N + 2

Verts == 0 .. (N - 1)

\* ------------------------------------------------------------ text of a file
\* A text is a sequence of characters: digits, blanks and newlines.
NL == "\n"

IsSpace(c) == c = " " \/ c = NL

\* text.strip(): without the white space at its two ends.
RECURSIVE Strip(_)
Strip(text) ==
    IF text = <<>> THEN <<>>
    ELSE IF IsSpace(Head(text)) THEN Strip(Tail(text))
    ELSE IF IsSpace(text[Len(text)]) THEN Strip(SubSeq(text, 1, Len(text) - 1))
    ELSE text

\* text.splitlines(): the lines of the text, a newline ending each but
\* possibly the last.
RECURSIVE SplitLinesFrom(_, _, _)
SplitLinesFrom(text, i, cur) ==
    IF i > Len(text)
    THEN IF cur = <<>> THEN <<>> ELSE <<cur>>
    ELSE IF text[i] = NL
         THEN <<cur>> \o SplitLinesFrom(text, i + 1, <<>>)
         ELSE SplitLinesFrom(text, i + 1, Append(cur, text[i]))

splitlines(text) == SplitLinesFrom(text, 1, <<>>)

DigitChars == <<"0", "1", "2", "3", "4", "5", "6", "7", "8", "9">>

DigitVal(c) == (CHOOSE i \in 1..10 : DigitChars[i] = c) - 1

\* str(n) of a non-negative int, as f"{n}" formats it.
RECURSIVE Str(_)
Str(n) == IF n < 10 THEN <<DigitChars[n + 1]>>
          ELSE Str(n \div 10) \o <<DigitChars[(n % 10) + 1]>>

\* int(s) of a token of decimal digits.
RECURSIVE IntOf(_)
IntOf(s) == IF Len(s) = 0 THEN 0
            ELSE 10 * IntOf(SubSeq(s, 1, Len(s) - 1)) + DigitVal(s[Len(s)])

\* line.split(): the maximal runs of non-blank characters.
RECURSIVE SplitFrom(_, _, _)
SplitFrom(line, i, cur) ==
    IF i > Len(line)
    THEN IF cur = <<>> THEN <<>> ELSE <<cur>>
    ELSE IF IsSpace(line[i])
         THEN IF cur = <<>> THEN SplitFrom(line, i + 1, <<>>)
              ELSE <<cur>> \o SplitFrom(line, i + 1, <<>>)
         ELSE SplitFrom(line, i + 1, Append(cur, line[i]))

Split(line) == SplitFrom(line, 1, <<>>)

\* f"{n} {m}\n" and f"{u} {v} 1\n"
HeaderLine(n, m) == Str(n) \o <<" ">> \o Str(m) \o <<NL>>

EdgeLine(u, v) == Str(u) \o <<" ">> \o Str(v) \o <<" ", "1", NL>>

\* --------------------------------------------------------------- nx.Graph
\* An nx.Graph is its node set and its adjacency map; add_edge(u, v) adds
\* both end points as nodes and each to the other's adjacency (u to its own
\* when u = v).
EmptyGraph == [nodes |-> {}, adj |-> [x \in {} |-> {}]]

AdjOf(G, x) == IF x \in G.nodes THEN G.adj[x] ELSE {}

add_edge(G, u, v) ==
    [nodes |-> G.nodes \cup {u, v},
     adj   |-> [x \in G.nodes \cup {u, v} |->
                  AdjOf(G, x) \cup (IF x = u THEN {v} ELSE {})
                              \cup (IF x = v THEN {u} ELSE {})]]

has_edge(G, u, v) == u \in G.nodes /\ v \in G.adj[u]

\* The graph on 0..n-1 with edge set E (pairs <<u, v>> with u < v), as
\* nx.erdos_renyi_graph builds it: all n nodes first, then the edges.
GraphOf(n, E) ==
    [nodes |-> 0 .. (n - 1),
     adj   |-> [x \in 0 .. (n - 1) |->
                  {y \in 0 .. (n - 1) : <<x, y>> \in E \/ <<y, x>> \in E}]]

Pairs(n) == {e \in (0 .. (n - 1)) \X (0 .. (n - 1)) : e[1] < e[2]}

\* G.edges(): every edge once, by first end point, then by second.
RECURSIVE EdgeSeq(_)
EdgeSeq(E) ==
    IF E = {} THEN <<>>
    ELSE LET e == CHOOSE a \in E : \A b \in E :
                      a[1] < b[1] \/ (a[1] = b[1] /\ a[2] <= b[2])
         IN  <<e>> \o EdgeSeq(E \ {e})

\* The file generate_graph writes for the graph on n vertices with edges E.
RECURSIVE EdgeLines(_)
EdgeLines(es) ==
    IF es = <<>> THEN <<>>
    ELSE EdgeLine(es[1][1], es[1][2]) \o EdgeLines(Tail(es))

generate_graph(n, E) ==
    HeaderLine(n, Cardinality(E)) \o EdgeLines(EdgeSeq(E))

\* sorted(s) of a set of ints.
RECURSIVE sorted(_)
sorted(s) ==
    IF s = {} THEN <<>>
    ELSE LET m == CHOOSE a \in s : \A b \in s : a <= b
         IN  <<m>> \o sorted(s \ {m})

\* ------------------------------------------------------------ is_clique
\* The two nested loops of is_clique over positions i < j of the list,
\* returning False at the first pair without an edge.
RECURSIVE is_clique_from(_, _, _, _)
is_clique_from(G, clique, i, j) ==
    IF i > Len(clique) THEN TRUE
    ELSE IF j > Len(clique) THEN is_clique_from(G, clique, i + 1, i + 2)
    ELSE IF ~has_edge(G, clique[i], clique[j]) THEN FALSE
    ELSE is_clique_from(G, clique, i, j + 1)

\* is_clique that tests only the entries next to each other in the list.
is_clique_neighbours_only(G, clique) ==
    \A i \in 1 .. (Len(clique) - 1) : has_edge(G, clique[i], clique[i + 1])

is_clique(G, clique) == is_clique_from(G, clique, 1, 2)

\* ------------------------------------------------------------------- ILP
\* The 0/1 assignments to the binary variables x[v], one per node.
Assignments(g) == [g.nodes -> {0, 1}]

\* Constraints on the adjacent pairs instead of the non-adjacent ones.
ConstraintsOnEdges(g) ==
    LET nodes == sorted(g.nodes)
        n == Len(nodes)
    IN  {c \in g.nodes \X g.nodes :
            \E i \in 1..n : \E j \in (i + 1)..n :
                c = <<nodes[i], nodes[j]>> /\ has_edge(g, nodes[i], nodes[j])}

\* The pairs <<u, v>> of the constraints x[u] + x[v] <= 1: positions i < j
\* of the sorted node list with no edge between nodes[i] and nodes[j].
Constraints(g) ==
    LET nodes == sorted(g.nodes)
        n == Len(nodes)
    IN  {c \in g.nodes \X g.nodes :
            \E i \in 1..n : \E j \in (i + 1)..n :
                c = <<nodes[i], nodes[j]>> /\ ~has_edge(g, nodes[i], nodes[j])}

\* x satisfies every constraint of the model.
Satisfies(g, x) == \A c \in Constraints(g) : x[c[1]] + x[c[2]] <= 1

\* quicksum(x[v] for v in nodes), from position i on.
RECURSIVE quicksum(_, _, _)
quicksum(x, nodes, i) ==
    IF i > Len(nodes) THEN 0 ELSE x[nodes[i]] + quicksum(x, nodes, i + 1)

Objective(g, x) == quicksum(x, sorted(g.nodes), 1)

\* model.optimize(): the assignments that satisfy the constraints and
\* maximise the objective; the solver may stop at any of them.
Optimal(g) ==
    LET feasible == {x \in Assignments(g) : Satisfies(g, x)}
    IN  {x \in feasible : \A y \in feasible : Objective(g, y) <= Objective(g, x)}

\* [v for v in nodes if x[v].X > 0.5]
Selected(g, x) == SelectSeq(sorted(g.nodes), LAMBDA v : 2 * x[v] > 1)

\* The lists ILP(G) can return.
ILP(g) == {Selected(g, x) : x \in Optimal(g)}

\* ------------------------------------------------------------------ state
VARIABLES
    pc,           \* where the program is
    mode,         \* "file": main() of bron-kerbosch.py on a graph file;
                  \* "test": test(); "compare": main() of ILP.py on a graph
                  \* file; "ilp": main() of ilp.py on a graph file
    file,         \* the text of the graph file
    lines,        \* parse_graph_file: the lines of the file
    idx,          \* parse_graph_file: position of the loop in lines
    G,            \* the nx.Graph
    neighbors,    \* BK: vertex -> set of neighbours
    best_clique,  \* BK: the largest clique reported so far
    reports,      \* BK: the R of every base case reached so far, in order
    stack,        \* BK: the frames of bron_kerbosch, outermost first
    result,       \* the list BK returned
    run,          \* test(): number of the current run on this graph
    rows,         \* test(): the BK rows written to the CSV file
    clique_bk,    \* validate_maximum_cliques: first candidate
    clique_ilp,   \* validate_maximum_cliques: second candidate
    size_bk,      \* validate_maximum_cliques: locals of lines 65-68
    size_ilp,
    valid_bk,
    valid_ilp,
    out,          \* the lines validate_maximum_cliques has printed
    rsa_file,     \* "rsa.py" or "RSA.py"
    rsa           \* rsa(): its arguments and locals

searchVars == <<mode, file, lines, idx, neighbors, best_clique, reports, stack, result,
                run, rows>>

valVars == <<clique_bk, clique_ilp, size_bk, size_ilp, valid_bk, valid_ilp, out>>

rsaVars == <<rsa_file, rsa>>

vars == <<pc, G, searchVars, valVars, rsaVars>>

\* ------------------------------------------------------------------ inputs
\* Sequences of at most k elements of S.
SeqsUpTo(S, k) == UNION {[1..m -> S] : m \in 0..k}

\* The simple graphs on 0..n-1, n <= N, that test() and generate_graph draw.
SimpleGraphs == {GraphOf(n, E) : <<n, E>> \in
                    {ne \in (0..N) \X SUBSET Pairs(N) : ne[2] \subseteq Pairs(ne[1])}}

\* A file of edge lines in any order, with repeated edges and with lines
\* whose two end points are equal.
FileOf(n, es) == HeaderLine(n, Len(es)) \o EdgeLines(es)

EdgeFiles == {FileOf(n, es) : <<n, es>> \in
                 {x \in (0..N) \X SeqsUpTo(Verts \X Verts, MaxLines) :
                     \A i \in 1..Len(x[2]) : x[2][i][1] < x[1] /\ x[2][i][2] < x[1]}}

\* The files generate_graph writes.
GeneratedFiles == {generate_graph(n, E) : <<n, E>> \in
                      {ne \in (0..N) \X SUBSET Pairs(N) : ne[2] \subseteq Pairs(ne[1])}}

\* An edge list without the weight column, and the file of no lines.
OtherFiles == {<<>>} \cup {HeaderLine(n, 1) \o Str(0) \o <<" ">> \o Str(1) \o <<NL>> : n \in 2..N}

InputFiles == EdgeFiles \cup GeneratedFiles \cup OtherFiles

NoMap == [x \in {} |-> {}]

\* The parts of the state a program does not use.
IdleSearch ==
    /\ mode = "none"
    /\ file = <<>>
    /\ lines = <<>>
    /\ idx = 0
    /\ neighbors = NoMap
    /\ best_clique = {}
    /\ reports = <<>>
    /\ stack = <<>>
    /\ result = <<>>
    /\ run = 0
    /\ rows = <<>>

IdleVal ==
    /\ clique_bk = <<>>
    /\ clique_ilp = <<>>
    /\ size_bk = 0
    /\ size_ilp = 0
    /\ valid_bk = FALSE
    /\ valid_ilp = FALSE
    /\ out = <<>>

IdleRsa ==
    /\ rsa_file = "none"
    /\ rsa = [p |-> 0]

Init ==
    /\ IdleVal
    /\ IdleRsa
    /\ mode \in {"file", "test", "compare", "ilp"}
    /\ IF mode # "test"
       THEN /\ file \in InputFiles
            /\ G = EmptyGraph
            /\ pc = "open"
       ELSE /\ file = <<>>
            /\ G \in SimpleGraphs
            /\ pc = "main"
    /\ lines = <<>>
    /\ idx = 0
    /\ neighbors = NoMap
    /\ best_clique = {}
    /\ reports = <<>>
    /\ stack = <<>>
    /\ result = <<>>
    /\ run = 1
    /\ rows = <<>>

\* ------------------------------------------------------- parse_graph_file
\* lines = f.read().strip().splitlines(); edge_lines = lines[1:]
ReadFile ==
    /\ pc = "open"
    /\ lines' = splitlines(Strip(file))
    /\ idx' = 2
    /\ pc' = "parse"
    /\ UNCHANGED <<mode, file, G, neighbors, best_clique, stack, result, run, rows, reports>>
    /\ UNCHANGED <<valVars, rsaVars>>

\* One iteration of `for line in edge_lines`.
ParseLine ==
    /\ pc = "parse"
    /\ idx <= Len(lines)
    /\ LET toks == Split(lines[idx])
       IN  IF Len(toks) # 3
           THEN /\ pc' = "ValueError"
                /\ UNCHANGED <<G, idx>>
           ELSE /\ G' = add_edge(G, IntOf(toks[1]), IntOf(toks[2]))
                /\ idx' = idx + 1
                /\ pc' = pc
    /\ UNCHANGED <<mode, file, lines, neighbors, best_clique, stack, result, run, rows, reports>>
    /\ UNCHANGED <<valVars, rsaVars>>

\* `return G`: the loop is over, the file's lines are dropped.
ParseReturn ==
    /\ pc = "parse"
    /\ idx > Len(lines)
    /\ pc' = "main"
    /\ lines' = <<>>
    /\ idx' = 0
    /\ UNCHANGED <<mode, file, G, neighbors, best_clique, stack, result, run, rows, reports>>
    /\ UNCHANGED <<valVars, rsaVars>>

\* ----------------------------------------------------------------- BK
Frame(R, P, X) == [R |-> R, P |-> P, X |-> X, snap |-> {}, v |-> -1, at |-> "entry"]

\* neighbors = {v: set(G.neighbors(v)) for v in G.nodes()}
NeighborsOf(g) == [x \in g.nodes |-> g.adj[x]]

\* BK(G) up to the first call bron_kerbosch(set(), set(G.nodes()), set()).
CallBK ==
    /\ pc = "main"
    /\ mode # "ilp"
    /\ best_clique' = {}
    /\ reports' = <<>>
    /\ neighbors' = NeighborsOf(G)
    /\ stack' = <<Frame({}, G.nodes, {})>>
    /\ pc' = "search"
    /\ UNCHANGED <<mode, file, lines, idx, G, result, run, rows>>
    /\ UNCHANGED <<valVars, rsaVars>>

Top == stack[Len(stack)]

Pop == SubSeq(stack, 1, Len(stack) - 1)

SetTop(f) == [stack EXCEPT ![Len(stack)] = f]

\* Report that also takes a clique of the same size as the best one.
ReportTies(best, R) == IF Cardinality(R) >= Cardinality(best) THEN R ELSE best

\* Report that keeps the first clique reported, whatever its size.
ReportFirst(best, R) == IF best = {} THEN R ELSE best

\* Report that takes every clique reported, whatever its size.
ReportLast(best, R) == R

\* best_clique after the test of lines 10-12 on R.
Report(best, R) == IF Cardinality(R) > Cardinality(best) THEN R ELSE best

\* Entry of bron_kerbosch: the base case (report and return), or the
\* snapshot list(P) of the loop.
Enter ==
    /\ pc = "search"
    /\ stack # <<>>
    /\ Top.at = "entry"
    /\ IF Top.P = {} /\ Top.X = {}
       THEN /\ best_clique' = Report(best_clique, Top.R)
            /\ reports' = Append(reports, Top.R)
            /\ stack' = Pop
       ELSE /\ stack' = SetTop([Top EXCEPT !.snap = Top.P, !.at = "loop"])
            /\ UNCHANGED <<best_clique, reports>>
    /\ UNCHANGED <<pc, mode, file, lines, idx, G, neighbors, result, run, rows>>
    /\ UNCHANGED <<valVars, rsaVars>>

\* Child that starts with no excluded vertex.
ChildEmptyX(f, v) == Frame(f.R \cup {v}, f.P \cap neighbors[v], {})

\* Child that passes P on without restricting it to the neighbours of v.
ChildAllOfP(f, v) == Frame(f.R \cup {v}, f.P \ {v}, f.X \cap neighbors[v])

\* The frame of the call bron_kerbosch(R | {v}, P & neighbors[v], X & neighbors[v]).
Child(f, v) == Frame(f.R \cup {v}, f.P \cap neighbors[v], f.X \cap neighbors[v])

\* One iteration of `for v in list(P)` up to the recursive call. The order
\* of list(P) is the set's iteration order: any vertex of the snapshot not
\* yet visited may come next.
Branch ==
    /\ pc = "search"
    /\ stack # <<>>
    /\ Top.at = "loop"
    /\ \E v \in Top.snap :
          IF Len(stack) >= MaxDepth
          THEN /\ pc' = "RecursionError"
               /\ UNCHANGED stack
          ELSE /\ stack' = Append(SetTop([Top EXCEPT !.snap = Top.snap \ {v},
                                                     !.v = v, !.at = "ret"]),
                                  Child(Top, v))
               /\ pc' = pc
    /\ UNCHANGED <<mode, file, lines, idx, G, neighbors, best_clique, result, run, rows, reports>>
    /\ UNCHANGED <<valVars, rsaVars>>

\* After the recursive call: P.remove(v); X.add(v).
Advance ==
    /\ pc = "search"
    /\ stack # <<>>
    /\ Top.at = "ret"
    /\ IF Top.v \in Top.P
       THEN /\ stack' = SetTop([Top EXCEPT !.P = Top.P \ {Top.v},
                                           !.X = Top.X \cup {Top.v},
                                           !.at = "loop"])
            /\ pc' = pc
       ELSE /\ pc' = "KeyError"
            /\ UNCHANGED stack
    /\ UNCHANGED <<mode, file, lines, idx, G, neighbors, best_clique, result, run, rows, reports>>
    /\ UNCHANGED <<valVars, rsaVars>>

\* The loop has visited the whole snapshot: the frame returns.
Return ==
    /\ pc = "search"
    /\ stack # <<>>
    /\ Top.at = "loop"
    /\ Top.snap = {}
    /\ stack' = Pop
    /\ UNCHANGED <<pc, mode, file, lines, idx, G, neighbors, best_clique, result, run, rows, reports>>
    /\ UNCHANGED <<valVars, rsaVars>>

\* return sorted(best_clique)
BKReturn ==
    /\ pc = "search"
    /\ stack = <<>>
    /\ result' = sorted(best_clique)
    /\ pc' = "returned"
    /\ UNCHANGED <<mode, file, lines, idx, G, neighbors, best_clique, stack, run, rows, reports>>
    /\ UNCHANGED <<valVars, rsaVars>>

\* ------------------------------------------------------ main() and test()
\* main(): print the clique.
PrintClique ==
    /\ pc = "returned"
    /\ mode = "file"
    /\ pc' = "done"
    /\ UNCHANGED <<mode, file, lines, idx, G, neighbors, best_clique, stack, result, run, rows, reports>>
    /\ UNCHANGED <<valVars, rsaVars>>

\* test(): the BK row of this run (lines 133-136).
WriteRow ==
    /\ pc = "returned"
    /\ mode = "test"
    /\ rows' = Append(rows, [Method |-> "BK", Run |-> run, CliqueSize |-> Len(result),
                             IsValidClique |-> is_clique(G, result)])
    /\ pc' = "ilp"
    /\ UNCHANGED <<mode, file, lines, idx, G, neighbors, best_clique, stack, result, run,
                   reports>>
    /\ UNCHANGED <<valVars, rsaVars>>

\* test(): clique_ilp = ILP(G) and the ILP row of this run (lines 140-143),
\* then the next run or the end.
WriteIlpRow ==
    /\ pc = "ilp"
    /\ mode = "test"
    /\ clique_ilp' \in ILP(G)
    /\ rows' = Append(rows, [Method |-> "ILP", Run |-> run, CliqueSize |-> Len(clique_ilp'),
                             IsValidClique |-> is_clique(G, clique_ilp')])
    /\ IF run < NumRuns
       THEN /\ run' = run + 1
            /\ pc' = "main"
       ELSE /\ run' = run
            /\ pc' = "done"
    /\ UNCHANGED <<mode, file, lines, idx, G, neighbors, best_clique, stack, result, reports>>
    /\ UNCHANGED <<clique_bk, size_bk, size_ilp, valid_bk, valid_ilp, out, rsaVars>>

\* main() of ilp.py on a graph file: clique = ILP(G), printed (lines 168-169).
IlpOnly ==
    /\ pc = "main"
    /\ mode = "ilp"
    /\ clique_ilp' \in ILP(G)
    /\ pc' = "done"
    /\ UNCHANGED <<G, searchVars, rsaVars>>
    /\ UNCHANGED <<clique_bk, size_bk, size_ilp, valid_bk, valid_ilp, out>>

\* main() of ILP.py on a graph file: clique_bk = BK(G) has returned, then
\* clique_ilp = ILP(G) (lines 165-166).
CompareILP ==
    /\ pc = "returned"
    /\ mode = "compare"
    /\ clique_bk' = result
    /\ clique_ilp' \in ILP(G)
    /\ pc' = "validate"
    /\ UNCHANGED <<G, searchVars, rsaVars>>
    /\ UNCHANGED <<size_bk, size_ilp, valid_bk, valid_ilp, out>>

\* main() of ILP.py: the two cliques are printed after the validation
\* (lines 168-169).
PrintBoth ==
    /\ pc = "validated"
    /\ mode = "compare"
    /\ pc' = "done"
    /\ UNCHANGED <<G, searchVars, valVars, rsaVars>>

\* ------------------------------------------- validate_maximum_cliques
\* Longest candidate list given to the validator.
MaxCand == 3

\* parse_graph_file as a function of the file: add_edge for every edge line;
\* a line that does not split into exactly three tokens raises ValueError at
\* the unpacking and no graph is returned (value is then unused).
RECURSIVE ParseFrom(_, _, _)
ParseFrom(ls, i, g) ==
    IF i > Len(ls) THEN [raised |-> "none", value |-> g]
    ELSE LET toks == Split(ls[i])
         IN  IF Len(toks) # 3
             THEN [raised |-> "ValueError", value |-> EmptyGraph]
             ELSE ParseFrom(ls, i + 1, add_edge(g, IntOf(toks[1]), IntOf(toks[2])))

\* The graphs parse_graph_file returns on the input files.
ParsedGraphs ==
    {r.value : r \in {q \in {ParseFrom(splitlines(Strip(f)), 2, EmptyGraph) : f \in InputFiles} :
                         q.raised = "none"}}

\* Candidates: every list of at most MaxCand vertices, in any order and
\* with repeats, against every increasing list.
BkCands == SeqsUpTo(Verts, MaxCand)

IlpCands == {sorted(S) : S \in SUBSET Verts}

InitVal ==
    /\ IdleSearch
    /\ IdleRsa
    /\ G \in SimpleGraphs \cup ParsedGraphs
    /\ clique_bk \in BkCands
    /\ clique_ilp \in IlpCands
    /\ size_bk = 0
    /\ size_ilp = 0
    /\ valid_bk = FALSE
    /\ valid_ilp = FALSE
    /\ out = <<>>
    /\ pc = "validate"

\* Lines 65-68: the sizes and the two calls of is_clique.
ValidateCompute ==
    /\ pc = "validate"
    /\ size_bk' = Len(clique_bk)
    /\ size_ilp' = Len(clique_ilp)
    /\ valid_bk' = is_clique(G, clique_bk)
    /\ valid_ilp' = is_clique(G, clique_ilp)
    /\ pc' = "report"
    /\ UNCHANGED <<G, clique_bk, clique_ilp, out, searchVars, rsaVars>>

MsgBk == "Bron-Kerbosch output is not a clique."

MsgIlp == "ILP output is not a clique."

MsgSame == "Both algorithms found valid maximum cliques of the same size."

MsgDiffer == "The cliques differ in size or validity."

\* Final message that looks at the sizes only.
FinalMessageSizeOnly(sb, si, vb, vi) == IF sb = si THEN MsgSame ELSE MsgDiffer

\* Lines 73-76.
FinalMessage(sb, si, vb, vi) ==
    IF sb = si /\ vb /\ vi THEN MsgSame ELSE MsgDiffer

\* Validity lines that name the Bron-Kerbosch candidate whichever one fails.
ValidityLinesOneName(vb, vi) ==
    (IF ~vb THEN <<MsgBk>> ELSE <<>>) \o (IF ~vi THEN <<MsgBk>> ELSE <<>>)

\* Lines 69-72.
ValidityLines(vb, vi) ==
    (IF ~vb THEN <<MsgBk>> ELSE <<>>) \o (IF ~vi THEN <<MsgIlp>> ELSE <<>>)

\* Lines 69-76: everything the call prints.
ReportLines(sb, si, vb, vi) ==
    ValidityLines(vb, vi) \o <<FinalMessage(sb, si, vb, vi)>>

ValidateReport ==
    /\ pc = "report"
    /\ out' = out \o ReportLines(size_bk, size_ilp, valid_bk, valid_ilp)
    /\ pc' = "validated"
    /\ UNCHANGED <<G, clique_bk, clique_ilp, size_bk, size_ilp, valid_bk, valid_ilp,
                   searchVars, rsaVars>>

\* ------------------------------------------------------ the two programs
Next ==
    \/ ReadFile
    \/ ParseLine
    \/ ParseReturn
    \/ CallBK
    \/ Enter
    \/ Branch
    \/ Advance
    \/ Return
    \/ BKReturn
    \/ PrintClique
    \/ WriteRow
    \/ WriteIlpRow
    \/ IlpOnly
    \/ CompareILP
    \/ ValidateCompute
    \/ ValidateReport
    \/ PrintBoth

Spec == Init /\ [][Next]_vars

NextVal ==
    \/ ValidateCompute
    \/ ValidateReport

SpecVal == InitVal /\ [][NextVal]_vars

\* -------------------------------------------------------------------- rsa
\* Largest q of the key pairs tried; p is 2q + 1 or 2q + 3.
MaxQ == 23
\* Longest message, in characters.
MaxMsgLen == 2

\* The characters of the messages: NUL, two control characters, "A", and
\* e-acute, which UTF-8 writes in two bytes.
CodePoints == {0, 1, 2, 65, 233}

RECURSIVE gcd(_, _)
gcd(a, b) == IF b = 0 THEN a ELSE gcd(b, a % b)

\* extended_gcd(a, b) = <<g, x, y>> with a*x + b*y = g.
RECURSIVE extended_gcd(_, _)
extended_gcd(a, b) ==
    IF a = 0 THEN <<b, 0, 1>>
    ELSE LET r == extended_gcd(b % a, a)
         IN  <<r[1], r[3] - (b \div a) * r[2], r[2]>>

\* pow(b, x, n) by repeated squaring.
RECURSIVE pow(_, _, _)
pow(b, x, n) ==
    IF x = 0 THEN 1 % n
    ELSE LET h == pow(b, x \div 2, n)
         IN  IF x % 2 = 0 THEN (h * h) % n ELSE (((h * h) % n) * (b % n)) % n

\* n - 1 = 2^r * s with s odd: lines 31-34.
RECURSIVE Halve(_, _)
Halve(r, s) == IF s % 2 = 0 THEN Halve(r + 1, s \div 2) ELSE <<r, s>>

\* Lines 41-46: up to `left` squarings of x, looking for n - 1.
RECURSIVE SquaresReach(_, _, _)
SquaresReach(x, left, n) ==
    IF left = 0 THEN FALSE
    ELSE LET y == pow(x, 2, n)
         IN  IF y = n - 1 THEN TRUE ELSE SquaresReach(y, left - 1, n)

\* One round of miller_rabin with the base a does not return False.
RoundPasses(n, a) ==
    LET rs == Halve(0, n - 1)
        x  == pow(a, rs[2], n)
    IN  x = 1 \/ x = n - 1 \/ SquaresReach(x, rs[1] - 1, n)

\* The values miller_rabin(n) can return: each of its k = 10 rounds draws a
\* base a in 2..n-2 at random (rounds may draw the same base).
miller_rabin(n) ==
    IF n <= 1 THEN {FALSE}
    ELSE IF n <= 3 THEN {TRUE}
    ELSE IF n % 2 = 0 THEN {FALSE}
    ELSE {b \in BOOLEAN : \E a \in 2 .. (n - 2) : RoundPasses(n, a) = b}

\* message_str.encode('utf-8') of one character.
Utf8Char(cp) ==
    IF cp < 128 THEN <<cp>>
    ELSE IF cp < 2048 THEN <<192 + (cp \div 64), 128 + (cp % 64)>>
    ELSE IF cp < 65536
         THEN <<224 + (cp \div 4096), 128 + ((cp \div 64) % 64), 128 + (cp % 64)>>
    ELSE <<240 + (cp \div 262144), 128 + ((cp \div 4096) % 64),
           128 + ((cp \div 64) % 64), 128 + (cp % 64)>>

RECURSIVE Utf8Encode(_)
Utf8Encode(str) ==
    IF str = <<>> THEN <<>> ELSE Utf8Char(Head(str)) \o Utf8Encode(Tail(str))

\* int.from_bytes(bs, byteorder='big')
RECURSIVE FromBytes(_)
FromBytes(bs) ==
    IF bs = <<>> THEN 0
    ELSE 256 * FromBytes(SubSeq(bs, 1, Len(bs) - 1)) + bs[Len(bs)]

RECURSIVE bit_length(_)
bit_length(x) == IF x = 0 THEN 0 ELSE 1 + bit_length(x \div 2)

\* x.to_bytes(k, byteorder='big')
RECURSIVE to_bytes(_, _)
to_bytes(x, k) ==
    IF k = 0 THEN <<>> ELSE Append(to_bytes(x \div 256, k - 1), x % 256)

IsCont(bs, i) == i <= Len(bs) /\ bs[i] >= 128 /\ bs[i] <= 191

\* bs.decode('utf-8') from position i: the characters, or err for bytes
\* that are not UTF-8 (UnicodeDecodeError).
RECURSIVE DecodeFrom(_, _)
DecodeFrom(bs, i) ==
    IF i > Len(bs) THEN [err |-> FALSE, str |-> <<>>]
    ELSE LET b == bs[i]
             one(cp, k) == LET rest == DecodeFrom(bs, i + k)
                           IN  [err |-> rest.err, str |-> <<cp>> \o rest.str]
             bad == [err |-> TRUE, str |-> <<>>]
         IN  IF b < 128 THEN one(b, 1)
             ELSE IF b >= 194 /\ b <= 223
                  THEN IF IsCont(bs, i + 1)
                       THEN one((b - 192) * 64 + (bs[i + 1] - 128), 2)
                       ELSE bad
             ELSE IF b >= 224 /\ b <= 239
                  THEN IF IsCont(bs, i + 1) /\ IsCont(bs, i + 2)
                       THEN LET cp == (b - 224) * 4096 + (bs[i + 1] - 128) * 64
                                      + (bs[i + 2] - 128)
                            IN  IF cp >= 2048 /\ ~(cp >= 55296 /\ cp <= 57343)
                                THEN one(cp, 3) ELSE bad
                       ELSE bad
             ELSE IF b >= 240 /\ b <= 244
                  THEN IF IsCont(bs, i + 1) /\ IsCont(bs, i + 2) /\ IsCont(bs, i + 3)
                       THEN LET cp == (b - 240) * 262144 + (bs[i + 1] - 128) * 4096
                                      + (bs[i + 2] - 128) * 64 + (bs[i + 3] - 128)
                            IN  IF cp >= 65536 /\ cp <= 1114111
                                THEN one(cp, 4) ELSE bad
                       ELSE bad
             ELSE bad

DecodingError == "<Decoding Error>"

\* Lines 84-87.
Decoded(bs) ==
    LET r == DecodeFrom(bs, 1) IN IF r.err THEN DecodingError ELSE r.str

\* while gcd(e, phi) != 1: e += 2
RECURSIVE FindE(_, _)
FindE(e, phi) == IF gcd(e, phi) # 1 THEN FindE(e + 2, phi) ELSE e

\* The messages tried: at most three bytes long, so that the integer of a
\* message fits the 32-bit integers of the model checker.
Messages == {str \in SeqsUpTo(CodePoints, MaxMsgLen) : Len(Utf8Encode(str)) <= 3}

InitRsa ==
    /\ IdleSearch
    /\ IdleVal
    /\ G = EmptyGraph
    /\ rsa_file \in {"rsa.py", "RSA.py"}
    /\ \E q \in 0..MaxQ : \E p \in {2 * q + 1, 2 * q + 3} : \E msg \in Messages :
          rsa = [p |-> p, q |-> q, message_str |-> msg]
    /\ pc = "rsa"

\* Lines 50-61: the checks of p and q; rsa() of RSA.py has the first two only.
RsaCheck ==
    /\ pc = "rsa"
    /\ \E okp \in miller_rabin(rsa.p) : \E okq \in miller_rabin(rsa.q) :
          pc' = IF rsa.p <= 1 \/ rsa.q <= 1 THEN "exit"
                ELSE IF rsa.p # 2 * rsa.q + 1 THEN "exit"
                ELSE IF rsa_file = "rsa.py" /\ ~okp THEN "exit"
                ELSE IF rsa_file = "rsa.py" /\ ~okq THEN "exit"
                ELSE "rsa_encode"
    /\ UNCHANGED <<G, rsa_file, rsa, searchVars, valVars>>

\* Lines 63-68: the message as an integer, and the test m < n.
RsaEncode ==
    /\ pc = "rsa_encode"
    /\ LET m == FromBytes(Utf8Encode(rsa.message_str))
           n == rsa.p * rsa.q
       IN  /\ rsa' = rsa @@ [m |-> m, n |-> n]
           /\ pc' = IF m >= n THEN "exit" ELSE "rsa_keys"
    /\ UNCHANGED <<G, rsa_file, searchVars, valVars>>

\* Lines 70-77: phi, e and d.
RsaKeys ==
    /\ pc = "rsa_keys"
    /\ LET phi == (rsa.p - 1) * (rsa.q - 1)
           e   == FindE(3, phi)
           d   == extended_gcd(e, phi)[2] % phi
       IN  rsa' = rsa @@ [phi |-> phi, e |-> e, d |-> d]
    /\ pc' = "rsa_crypt"
    /\ UNCHANGED <<G, rsa_file, searchVars, valVars>>

\* Lines 79-89: encrypt, decrypt, and the decrypted integer as a string.
RsaCrypt ==
    /\ pc = "rsa_crypt"
    /\ LET c == pow(rsa.m, rsa.e, rsa.n)
           m_decrypted_int == pow(c, rsa.d, rsa.n)
           decrypted_bytes == to_bytes(m_decrypted_int,
                                       (bit_length(m_decrypted_int) + 7) \div 8)
       IN  rsa' = rsa @@ [c |-> c, m_decrypted_int |-> m_decrypted_int,
                          m_decrypted_str |-> Decoded(decrypted_bytes)]
    /\ pc' = "rsa_returned"
    /\ UNCHANGED <<G, rsa_file, searchVars, valVars>>

NextRsa ==
    \/ RsaCheck
    \/ RsaEncode
    \/ RsaKeys
    \/ RsaCrypt

SpecRsa == InitRsa /\ [][NextRsa]_vars

\* ------------------------------------------------------------ properties
\* The vertex set S is pairwise adjacent in g.
IsCliqueSet(g, S) == \A a \in S : \A b \in S : a # b => has_edge(g, a, b)

Range(q) == {q[i] : i \in 1..Len(q)}

\* Brute force over all vertex subsets: the size of a largest clique.
MaxCliqueSize(g) ==
    CHOOSE k \in 0..Cardinality(g.nodes) :
        /\ \E S \in SUBSET g.nodes : IsCliqueSet(g, S) /\ Cardinality(S) = k
        /\ \A S \in SUBSET g.nodes : IsCliqueSet(g, S) => Cardinality(S) <= k

\* C1: the list BK returns is a clique of G: is_clique accepts it and every
\* two distinct vertices of it are adjacent in G.
Thm_C1 ==
    pc = "returned" =>
        /\ is_clique(G, result)
        /\ Range(result) \subseteq G.nodes
        /\ IsCliqueSet(G, Range(result))

\* BK has returned a clique of at least two vertices.
Wit_C1 == pc = "returned" /\ Len(result) >= 2

\* C2: no clique of G has more vertices than the list BK returns: its
\* length is the maximum size over all pairwise adjacent vertex subsets.
Thm_C2 == pc = "returned" => Len(result) = MaxCliqueSize(G)

\* BK has returned on a graph with an edge whose vertices are not all
\* pairwise adjacent (a path, or an edge and an isolated vertex).
Wit_C2 ==
    /\ pc = "returned"
    /\ Len(result) = 2
    /\ Cardinality(G.nodes) = 3

\* C3: the search terminates on every graph the program can construct:
\* every child call gets a strict subset of the P its caller holds at the
\* call, and the recursion ends without error.
CE_C3 ==
    /\ pc # "RecursionError"
    /\ \A k \in 2..Len(stack) :
          (stack[k].at = "entry" /\ stack[k - 1].at = "ret")
              => (stack[k].P \subseteq stack[k - 1].P /\ stack[k].P # stack[k - 1].P)

\* C4: the neighbors map of BK is symmetric and irreflexive for every
\* sequence of edge lines, with repeated edges and lines with u = v.
CE_C4 ==
    pc = "search" =>
        \A u \in DOMAIN neighbors :
            /\ u \notin neighbors[u]
            /\ \A v \in neighbors[u] : v \in DOMAIN neighbors /\ u \in neighbors[v]

\* C8: the size of the clique BK returns depends only on the graph: all
\* runs of test() on one graph, under any iteration order, write the same
\* CliqueSize.
Thm_C8 ==
    /\ \A i \in 1..Len(rows) : \A j \in 1..Len(rows) :
          rows[i].CliqueSize = rows[j].CliqueSize
    /\ (pc = "returned" /\ mode = "test") =>
          \A i \in 1..Len(rows) : rows[i].CliqueSize = Len(result)

\* Two runs on a graph with more than one maximum clique have been written.
Wit_C8 ==
    /\ \E i \in 1..Len(rows) : \E j \in (i + 1)..Len(rows) :
          rows[i].Method = "BK" /\ rows[j].Method = "BK"
    /\ Cardinality({S \in SUBSET G.nodes :
                      IsCliqueSet(G, S) /\ Cardinality(S) = MaxCliqueSize(G)}) >= 2

\* The edges of g as pairs <<u, v>> with u < v.
EdgesOf(g) == {e \in g.nodes \X g.nodes : e[1] < e[2] /\ has_edge(g, e[1], e[2])}

\* C9: for a file written by generate_graph for a graph on n vertices,
\* parse_graph_file returns a graph with vertex set 0..n-1 and the edges
\* written, and the search starts with P equal to all n vertices.
CE_C9 ==
    (mode = "file" /\ pc = "search" /\ Len(stack) = 1 /\ stack[1].at = "entry") =>
        \A n \in 0..N : \A E \in SUBSET Pairs(n) :
            file = generate_graph(n, E) =>
                /\ G.nodes = 0 .. (n - 1)
                /\ EdgesOf(G) = E
                /\ stack[1].P = 0 .. (n - 1)

\* Every two entries at different positions of the list are joined by an edge.
PairwiseEdges(g, l) ==
    \A i \in 1..Len(l) : \A j \in 1..Len(l) : i < j => has_edge(g, l[i], l[j])

\* C5 as stated: is_clique returns True exactly when every two different
\* vertices occurring in the candidate are adjacent, and True for every
\* candidate with at most one vertex.
CE_C5 ==
    pc \in {"report", "validated"} =>
        /\ valid_bk = IsCliqueSet(G, Range(clique_bk))
        /\ Cardinality(Range(clique_bk)) <= 1 => valid_bk

C5_Result ==
    pc \in {"report", "validated"} =>
        /\ valid_bk = PairwiseEdges(G, clique_bk)
        /\ valid_ilp = PairwiseEdges(G, clique_ilp)
        /\ Len(clique_bk) <= 1 => valid_bk
        /\ Len(clique_ilp) <= 1 => valid_ilp

\* C5, amended: is_clique returns True exactly when every two entries at
\* different positions of the candidate list are joined by an edge of G (a
\* list that repeats a vertex passes only if that vertex has a self-loop),
\* so it returns True for every list of length at most one; it changes
\* neither G nor the candidate.
Thm_C5 ==
    /\ []C5_Result
    /\ [][G' = G /\ clique_bk' = clique_bk /\ clique_ilp' = clique_ilp]_vars

\* is_clique has rejected a list of three vertices whose consecutive
\* entries are adjacent, and accepted the other candidate.
Wit_C5 ==
    /\ pc = "report"
    /\ Len(clique_bk) = 3
    /\ has_edge(G, clique_bk[1], clique_bk[2])
    /\ has_edge(G, clique_bk[2], clique_bk[3])
    /\ ~valid_bk
    /\ valid_ilp
    /\ Len(clique_ilp) = 2

InOut(msg) == \E i \in 1..Len(out) : out[i] = msg

\* C6: agreement is reported if and only if both candidates pass is_clique
\* and have the same length, a mismatch in every other case, exactly one of
\* the two per call; a candidate with a non-adjacent pair gives a mismatch.
Thm_C6 ==
    pc = "validated" =>
        /\ InOut(MsgSame) <=> (/\ is_clique(G, clique_bk)
                               /\ is_clique(G, clique_ilp)
                               /\ Len(clique_bk) = Len(clique_ilp))
        /\ InOut(MsgSame) # InOut(MsgDiffer)
        /\ Cardinality({i \in 1..Len(out) : out[i] \in {MsgSame, MsgDiffer}}) = 1
        /\ (~PairwiseEdges(G, clique_bk) \/ ~PairwiseEdges(G, clique_ilp))
              => InOut(MsgDiffer)

\* A mismatch was reported for two lists of the same length of which one
\* has a non-adjacent pair.
Wit_C6 ==
    /\ pc = "validated"
    /\ Len(clique_bk) = Len(clique_ilp)
    /\ Len(clique_bk) >= 2
    /\ ~PairwiseEdges(G, clique_bk)
    /\ PairwiseEdges(G, clique_ilp)
    /\ InOut(MsgDiffer)

\* The causes of a mismatch between two candidates.
Causes(g, a, b) ==
    (IF ~is_clique(g, a) THEN {"bk"} ELSE {}) \cup
    (IF ~is_clique(g, b) THEN {"ilp"} ELSE {}) \cup
    (IF Len(a) # Len(b) THEN {"size"} ELSE {})

\* What validate_maximum_cliques(g, a, b) prints.
Printed(g, a, b) == ReportLines(Len(a), Len(b), is_clique(g, a), is_clique(g, b))

\* C7 as stated: the report of a mismatch identifies which of the three
\* causes apply: two mismatching inputs with different sets of causes
\* produce different reports.
CE_C7 ==
    (pc = "validated" /\ InOut(MsgDiffer)) =>
        \A a \in BkCands : \A b \in IlpCands :
            Printed(G, a, b) = out => Causes(G, a, b) = Causes(G, clique_bk, clique_ilp)

\* C7, amended: the report of a mismatch identifies which candidates are
\* not cliques, by one line for each, followed by the one line "The cliques
\* differ in size or validity."; it does not tell whether the sizes differ.
Thm_C7 ==
    (pc = "validated" /\ InOut(MsgDiffer)) =>
        /\ InOut(MsgBk) <=> ~is_clique(G, clique_bk)
        /\ InOut(MsgIlp) <=> ~is_clique(G, clique_ilp)
        /\ out[Len(out)] = MsgDiffer
        /\ Len(out) = 1 + Cardinality(Causes(G, clique_bk, clique_ilp) \ {"size"})
        /\ (InOut(MsgBk) /\ InOut(MsgIlp)) => (out[1] = MsgBk /\ out[2] = MsgIlp)

\* A mismatch whose only cause is that the ILP candidate is not a clique.
Wit_C7 ==
    /\ pc = "validated"
    /\ Causes(G, clique_bk, clique_ilp) = {"ilp"}
    /\ out = <<MsgIlp, MsgDiffer>>

IsPrime(x) == x >= 2 /\ \A k \in 2 .. (x - 1) : x % k # 0

\* The precondition of C10 on the arguments of rsa().
RsaPre ==
    /\ IsPrime(rsa.p)
    /\ IsPrime(rsa.q)
    /\ rsa.p = 2 * rsa.q + 1
    /\ FromBytes(Utf8Encode(rsa.message_str)) < rsa.p * rsa.q

\* C10: for primes p = 2q + 1 and a message whose integer m is below p*q,
\* rsa returns without exiting, pow(pow(m, e, n), d, n) = m and the
\* decrypted string is the message.
CE_C10 ==
    RsaPre =>
        /\ pc # "exit"
        /\ pc = "rsa_returned" =>
              /\ rsa.m_decrypted_int = rsa.m
              /\ rsa.m_decrypted_str = rsa.message_str

\* The part of C10 on integers: under its precondition rsa does not exit
\* and decrypts the integer it encrypted.
RsaIntegerRoundTrip ==
    RsaPre =>
        /\ pc # "exit"
        /\ pc = "rsa_returned" =>
              /\ rsa.m_decrypted_int = rsa.m
              /\ (rsa.e * rsa.d) % rsa.phi = 1

\* No vertex outside the clique S is adjacent to all of S.
IsMaximal(g, S) ==
    /\ IsCliqueSet(g, S)
    /\ \A w \in g.nodes \ S : \E a \in S : ~has_edge(g, w, a)

MaximalCliques(g) == {S \in SUBSET g.nodes : IsMaximal(g, S)}

\* C11: the base case with P and X empty is reached exactly at the maximal
\* cliques of the graph: every R seen there is a clique no vertex extends,
\* none is seen twice, and when the search is over every maximal clique
\* has been seen.
Thm_C11 ==
    /\ \A i \in 1..Len(reports) : IsMaximal(G, reports[i])
    /\ \A i \in 1..Len(reports) : \A j \in 1..Len(reports) :
          reports[i] = reports[j] => i = j
    /\ (pc \in {"search", "returned"} /\ stack = <<>>)
          => Range(reports) = MaximalCliques(G)

\* A search is over on a graph of three vertices with two maximal cliques.
Wit_C11 ==
    /\ pc = "returned"
    /\ Len(reports) = 2
    /\ Cardinality(G.nodes) = 3

\* The vertices of g adjacent to every vertex of R (all of them when R is empty).
CommonNeighbours(g, R) == {w \in g.nodes : \A a \in R : has_edge(g, w, a)}

\* A frame whose loop has run through its whole snapshot.
FrameEnded(f) == f.at = "loop" /\ f.snap = {}

\* C12: in every frame of the search, at entry and after each loop iteration,
\* P and X together are exactly the vertices adjacent to every vertex of R,
\* P and X are disjoint, R shares no vertex with P or X, and a frame whose
\* loop is over has an empty P.
CE_C12 ==
    pc = "search" =>
        \A k \in 1..Len(stack) :
            /\ stack[k].P \cup stack[k].X = CommonNeighbours(G, stack[k].R)
            /\ stack[k].P \cap stack[k].X = {}
            /\ stack[k].R \cap (stack[k].P \cup stack[k].X) = {}
            /\ FrameEnded(stack[k]) => stack[k].P = {}

\* C13: in every call of the search R is a clique, the vertex a call has
\* added to its caller's R is adjacent to every vertex of the caller's R, and
\* the size of R is the depth of the call (0 for the outermost call).
CE_C13 ==
    pc = "search" =>
        \A k \in 1..Len(stack) :
            /\ IsCliqueSet(G, stack[k].R)
            /\ Cardinality(stack[k].R) = k - 1
            /\ k > 1 =>
                  /\ stack[k].R = stack[k - 1].R \cup {stack[k - 1].v}
                  /\ \A a \in stack[k - 1].R : has_edge(G, stack[k - 1].v, a)

\* The first of the largest sets of a sequence of reports ({} before any).
FirstLargest(q) ==
    IF q = <<>> THEN {}
    ELSE LET m == CHOOSE k \in 0..N + 1 :
                      /\ \E i \in 1..Len(q) : Cardinality(q[i]) = k
                      /\ \A i \in 1..Len(q) : Cardinality(q[i]) <= k
             i == CHOOSE j \in 1..Len(q) :
                      /\ Cardinality(q[j]) = m
                      /\ \A h \in 1..(j - 1) : Cardinality(q[h]) < m
         IN q[i]

\* best_clique is the first of the largest cliques reported so far, and the
\* list BK returns is that clique, sorted.
C14_Best ==
    /\ pc \in {"search", "returned"} => best_clique = FirstLargest(reports)
    /\ pc = "returned" => result = sorted(FirstLargest(reports))

\* A step of the search that changes best_clique is a report, at a frame
\* with P and X empty, of an R strictly larger than best_clique, and
\* best_clique becomes that R; outside the search only the start of a new
\* call of BK changes it, to the empty set.
C14_Step ==
    best_clique' # best_clique =>
        \/ /\ pc = "search" /\ stack # <<>>
           /\ Top.at = "entry" /\ Top.P = {} /\ Top.X = {}
           /\ Cardinality(Top.R) > Cardinality(best_clique)
           /\ best_clique' = Top.R
           /\ reports' = Append(reports, Top.R)
        \/ /\ pc = "main" /\ pc' = "search"
           /\ best_clique' = {}

\* The size of best_clique never decreases during a search.
C14_Monotone ==
    (pc = "search" /\ pc' \in {"search", "returned"})
        => Cardinality(best_clique') >= Cardinality(best_clique)

\* C14: best_clique changes only at a report whose R is strictly larger and
\* then equals that R; its size never decreases during the search; it is
\* always a largest of the cliques reported so far; among several reported
\* cliques of the largest size the first one is the one BK returns.
Thm_C14 ==
    /\ []C14_Best
    /\ [][C14_Step /\ C14_Monotone]_vars

\* BK has returned after reporting two cliques of the largest size, and its
\* result is the first of them.
Wit_C14 ==
    /\ pc = "returned"
    /\ \E i \in 1..Len(reports) : \E j \in (i + 1)..Len(reports) :
          /\ Cardinality(reports[i]) = Cardinality(reports[j])
          /\ Cardinality(reports[i]) = Len(result)
          /\ Range(result) = reports[i]
          /\ reports[i] # reports[j]

\* The vertices an assignment selects.
Chosen(g, x) == {v \in g.nodes : x[v] = 1}

\* An assignment satisfies the constraints of ILP exactly when the vertices
\* it selects form a clique.
C15_Constraints ==
    \A x \in Assignments(G) : Satisfies(G, x) <=> IsCliqueSet(G, Chosen(G, x))

\* Every list ILP can return is a clique of the largest size.
C15_Optimal ==
    \A c \in ILP(G) : is_clique(G, c) /\ Len(c) = MaxCliqueSize(G)

\* The program has its graph and has not run a search on it yet.
GraphBuilt == pc = "main" /\ run = 1

\* C15: a 0/1 assignment satisfies all constraints built by ILP exactly when
\* the selected vertices form a clique, so every optimal solution is a clique
\* of the size of the clique BK returns, and the validation of BK(G) against
\* ILP(G) reports that both found valid maximum cliques of the same size.
Thm_C15 ==
    /\ GraphBuilt => (C15_Constraints /\ C15_Optimal)
    /\ (mode = "compare" /\ pc \in {"validate", "report", "validated"}) =>
          /\ clique_bk = result
          /\ is_clique(G, clique_ilp)
          /\ Len(clique_ilp) = Len(clique_bk)
    /\ (mode = "compare" /\ pc \in {"validated", "done"}) => out = <<MsgSame>>
    /\ (mode = "test" /\ pc \in {"main", "done"} /\ rows # <<>>) =>
          /\ rows[Len(rows)].Method = "ILP"
          /\ rows[Len(rows)].IsValidClique
          /\ rows[Len(rows)].CliqueSize = Len(result)

\* main() of ILP.py has validated the two cliques of a graph where BK and
\* ILP returned different cliques of two vertices.
Wit_C15 ==
    /\ mode = "compare"
    /\ pc = "validated"
    /\ Len(clique_bk) = 2
    /\ clique_ilp # clique_bk

====
